---- MODULE Spec2Model ----
(***************************************************************************)
(* TapoONVIFController (src/tapo_onvif_controller.py) as a state machine.  *)
(*                                                                         *)
(* The state is the controller object's stored fields plus a record of the *)
(* most recent call of a public operation: its name, its arguments, the    *)
(* device requests it issued in order (with the device's answer to each)   *)
(* and the value it returned.  The program is single threaded and every    *)
(* operation runs to completion, so one action is one whole call.  The     *)
(* device is external: every answer it gives is drawn from a bounded set.  *)
(*                                                                         *)
(* Coordinates are the ONVIF normalised floats, modelled as integers:      *)
(* 1.0 is 1.  Python's None is the empty tuple and a present value v is    *)
(* the one-element tuple <<v>>.  An empty dict, list or tuple is <<>>.     *)
(***************************************************************************)
EXTENDS Integers, Sequences, FiniteSets

VARIABLES camera, media_service, ptz_service, media_profile,
          ptz_config_options, pan_range, tilt_range, zoom_range,
          lastOp, args, log, ret

fields == <<camera, media_service, ptz_service, media_profile,
            ptz_config_options, pan_range, tilt_range, zoom_range>>
vars == <<camera, media_service, ptz_service, media_profile,
          ptz_config_options, pan_range, tilt_range, zoom_range,
          lastOp, args, log, ret>>

\* ---------------------------------------------------------------- bounds

\* Largest magnitude of a coordinate argument handed to absolute_move.
MaxCoord == 3
\* Largest magnitude of a range limit the device reports.
MaxRange == 2
\* Largest coordinate the device reports as its current position.
MaxRep == 1
\* Longest list (profiles, coordinate spaces, presets) the device returns.
MaxList == 2

\* ------------------------------------------------------- python values

None == <<>>
Some(v) == <<v>>
NoObject == "None"
EmptyString == ""
EmptyDict == <<>>
EmptyList == <<>>
NoReturn == "None"

Max(a, b) == IF a >= b THEN a ELSE b
Min(a, b) == IF a <= b THEN a ELSE b

\* A (min, max) tuple: range[1] is Python's range[0], range[2] is range[1].
DefaultPanRange == <<-1, 1>>
DefaultTiltRange == <<-1, 1>>
DefaultZoomRange == <<0, 1>>

Self == [camera |-> camera, media_service |-> media_service,
         ptz_service |-> ptz_service, media_profile |-> media_profile,
         ptz_config_options |-> ptz_config_options, pan_range |-> pan_range,
         tilt_range |-> tilt_range, zoom_range |-> zoom_range]

\* One device request as the call issued it: its kind, whether the device
\* (or the library call) succeeded, what was sent and what came back.
Req(kind, ok, arg, reply) == [req |-> kind, ok |-> ok, arg |-> arg, reply |-> reply]

\* What a call of an operation produced.
Outcome(self, l, r) == [self |-> self, log |-> l, ret |-> r]

\* ------------------------------------------------------ device answers

Bools == {TRUE, FALSE}

\* The device answers only what it is asked: the answer to a request that
\* the call never sends is not drawn.
Asked(sent, answers) == IF sent THEN answers ELSE {CHOOSE a \in answers : TRUE}

SeqsUpTo(S, n) == UNION {[1..k -> S] : k \in 0..n}

\* Media profiles: token and the token of the PTZConfiguration (None when
\* the profile carries no PTZ configuration).
Profiles == {[token |-> "profile_1", PTZConfiguration |-> Some("ptz_1")],
             [token |-> "profile_2", PTZConfiguration |-> None]}

\* GetProfiles: the request fails, or a (possibly empty) list of profiles.
ProfileReplies == {[ok |-> FALSE, list |-> <<>>]}
                  \cup {[ok |-> TRUE, list |-> l] : l \in SeqsUpTo(Profiles, MaxList)}

\* Space2DDescription and Space1DDescription entries.  The FloatRange
\* (Min, Max) is what the device states: nothing makes Min <= Max.
PanTiltSpaces == {[XRange |-> <<-MaxRange, MaxRange>>, YRange |-> <<0, MaxRange>>],
                  [XRange |-> <<MaxRange, -MaxRange>>, YRange |-> <<-MaxRange, 0>>]}
ZoomSpaces == {[XRange |-> <<0, MaxRange>>]}

\* GetConfigurationOptions: the request fails, or the options' Spaces.  A
\* space list that is absent and one that is empty take the same branch of the
\* code (hasattr(...) and ...), and both are the empty list here.
OptionReplies ==
    {[ok |-> FALSE, Spaces |-> None]}
    \cup {[ok |-> TRUE,
           Spaces |-> Some([AbsolutePanTiltPositionSpace |-> pt,
                            AbsoluteZoomPositionSpace |-> zm])] :
            pt \in SeqsUpTo(PanTiltSpaces, MaxList),
            zm \in SeqsUpTo(ZoomSpaces, MaxList)}

\* A component of a PTZ position (PanTilt or Zoom) as the library hands it
\* over: a vector, an attribute that is None, or no attribute at all.
PanTiltVectors == {[kind |-> "value", x |-> 0, y |-> MaxRep],
                   [kind |-> "value", x |-> MaxRep, y |-> 0]}
ZoomVectors == {[kind |-> "value", x |-> MaxRep]}
NoVectors == {[kind |-> "none"], [kind |-> "missing"]}

\* status.Position: None, or a PTZVector whose components are both vectors
\* or of which one is not.
Positions == {None}
             \cup {Some([PanTilt |-> pt, Zoom |-> zm]) :
                     pt \in PanTiltVectors, zm \in ZoomVectors}
             \cup {Some([PanTilt |-> pt, Zoom |-> zm]) :
                     pt \in {[kind |-> "value", x |-> 0, y |-> MaxRep]}, zm \in NoVectors}
             \cup {Some([PanTilt |-> pt, Zoom |-> zm]) :
                     pt \in NoVectors, zm \in ZoomVectors}

\* GetStatus: the request fails, or a status carrying a Position.
StatusReplies == {[ok |-> FALSE, Position |-> None]}
                 \cup {[ok |-> TRUE, Position |-> p] : p \in Positions}

\* The effect of a call on the state.
Returns(op, a, o) ==
    LET r == o
    IN /\ camera' = r.self.camera
       /\ media_service' = r.self.media_service
       /\ ptz_service' = r.self.ptz_service
       /\ media_profile' = r.self.media_profile
       /\ ptz_config_options' = r.self.ptz_config_options
       /\ pan_range' = r.self.pan_range
       /\ tilt_range' = r.self.tilt_range
       /\ zoom_range' = r.self.zoom_range
       /\ lastOp' = op
       /\ args' = a
       /\ log' = r.log
       /\ ret' = r.ret

\* ------------------------------------------------------------- connect

\* _get_ptz_config_options with the tilt bounds taken from XRange.
get_ptz_config_options_tilt_from_x(self, l, options) ==
    IF self.media_profile[1].PTZConfiguration = None
    THEN Outcome(self, l, NoReturn)
    ELSE LET sent == Append(l, Req("GetConfigurationOptions", options.ok,
                     [ConfigurationToken |-> self.media_profile[1].PTZConfiguration[1]],
                     options.Spaces))
         IN IF ~options.ok
            THEN Outcome(self, sent, NoReturn)
            ELSE LET spaces == options.Spaces[1]
                     pt == spaces.AbsolutePanTiltPositionSpace
                     zm == spaces.AbsoluteZoomPositionSpace
                     s1 == [self EXCEPT !.ptz_config_options = "PTZConfigurationOptions"]
                     s2 == IF pt # <<>>
                           THEN [s1 EXCEPT !.pan_range = pt[1].XRange,
                                           !.tilt_range = pt[1].XRange]
                           ELSE s1
                     s3 == IF zm # <<>>
                           THEN [s2 EXCEPT !.zoom_range = zm[1].XRange]
                           ELSE s2
                 IN Outcome(s3, sent, NoReturn)

\* _get_ptz_config_options: the request is built from the profile's PTZ
\* configuration token; building it fails when there is none.  Any failure is
\* absorbed.  The ranges are assigned from the first entry of each space that
\* is there and non-empty.  The stored options object is opaque: nothing reads
\* it back.
_get_ptz_config_options(self, l, options) ==
    IF self.media_profile[1].PTZConfiguration = None
    THEN Outcome(self, l, NoReturn)
    ELSE LET sent == Append(l, Req("GetConfigurationOptions", options.ok,
                     [ConfigurationToken |-> self.media_profile[1].PTZConfiguration[1]],
                     options.Spaces))
         IN IF ~options.ok
            THEN Outcome(self, sent, NoReturn)
            ELSE LET spaces == options.Spaces[1]
                     pt == spaces.AbsolutePanTiltPositionSpace
                     zm == spaces.AbsoluteZoomPositionSpace
                     s1 == [self EXCEPT !.ptz_config_options = "PTZConfigurationOptions"]
                     s2 == IF pt # <<>>
                           THEN [s1 EXCEPT !.pan_range = pt[1].XRange,
                                           !.tilt_range = pt[1].YRange]
                           ELSE s1
                     s3 == IF zm # <<>>
                           THEN [s2 EXCEPT !.zoom_range = zm[1].XRange]
                           ELSE s2
                 IN Outcome(s3, sent, NoReturn)

\* connect returning False when the options request fails.
connect_fails_with_options(self, camOk, infoOk, mediaOk, profiles, ptzOk, options) ==
    LET l1 == <<Req("ONVIFCamera", camOk, None, None)>>
        s1 == [self EXCEPT !.camera = "ONVIFCamera"]
        l2 == Append(l1, Req("GetDeviceInformation", infoOk, None, None))
        l3 == Append(l2, Req("create_media_service", mediaOk, None, None))
        s3 == [s1 EXCEPT !.media_service = "media_service"]
        l4 == Append(l3, Req("GetProfiles", profiles.ok, None, profiles.list))
        s4 == [s3 EXCEPT !.media_profile = Some(profiles.list[1])]
        l5 == Append(l4, Req("create_ptz_service", ptzOk, None, None))
        s5 == [s4 EXCEPT !.ptz_service = "ptz_service"]
    IN IF ~camOk THEN Outcome(self, l1, FALSE)
       ELSE IF ~infoOk THEN Outcome(s1, l2, FALSE)
       ELSE IF ~mediaOk THEN Outcome(s1, l3, FALSE)
       ELSE IF ~profiles.ok \/ profiles.list = <<>> THEN Outcome(s3, l4, FALSE)
       ELSE IF ~ptzOk THEN Outcome(s4, l5, FALSE)
       ELSE LET o == _get_ptz_config_options(s5, l5, options)
            IN Outcome(o.self, o.log, \A i \in DOMAIN o.log : o.log[i].ok)

\* connect: the steps in the order of the code, each under the one try; the
\* first that fails ends the call with False, and the fields assigned before it
\* stay assigned.
connect_call(self, camOk, infoOk, mediaOk, profiles, ptzOk, options) ==
    LET l1 == <<Req("ONVIFCamera", camOk, None, None)>>
        s1 == [self EXCEPT !.camera = "ONVIFCamera"]
        l2 == Append(l1, Req("GetDeviceInformation", infoOk, None, None))
        l3 == Append(l2, Req("create_media_service", mediaOk, None, None))
        s3 == [s1 EXCEPT !.media_service = "media_service"]
        l4 == Append(l3, Req("GetProfiles", profiles.ok, None, profiles.list))
        s4 == [s3 EXCEPT !.media_profile = Some(profiles.list[1])]
        l5 == Append(l4, Req("create_ptz_service", ptzOk, None, None))
        s5 == [s4 EXCEPT !.ptz_service = "ptz_service"]
    IN IF ~camOk THEN Outcome(self, l1, FALSE)
       ELSE IF ~infoOk THEN Outcome(s1, l2, FALSE)
       ELSE IF ~mediaOk THEN Outcome(s1, l3, FALSE)
       ELSE IF ~profiles.ok \/ profiles.list = <<>> THEN Outcome(s3, l4, FALSE)
       ELSE IF ~ptzOk THEN Outcome(s4, l5, FALSE)
       ELSE LET o == _get_ptz_config_options(s5, l5, options)
            IN Outcome(o.self, o.log, TRUE)

connect ==
    \E camOk \in Bools :
    \E infoOk \in Asked(camOk, Bools) :
    \E mediaOk \in Asked(camOk /\ infoOk, Bools) :
    \E profiles \in Asked(camOk /\ infoOk /\ mediaOk, ProfileReplies) :
    \E ptzOk \in Asked(camOk /\ infoOk /\ mediaOk /\ profiles.ok /\ profiles.list # <<>>, Bools) :
    \E options \in Asked(/\ camOk /\ infoOk /\ mediaOk /\ profiles.ok /\ ptzOk
                         /\ profiles.list # <<>>
                         /\ profiles.list[1].PTZConfiguration # None, OptionReplies) :
        Returns("connect", None,
                connect_call(Self, camOk, infoOk, mediaOk, profiles, ptzOk, options))

\* -------------------------------------------------------------- streams

\* get_rtsp_url: a formatted string, no request.
get_rtsp_url_call(self, stream_index) ==
    Outcome(self, <<>>, <<"rtsp", 554, stream_index>>)

StreamIndexes == {1, 2}

get_rtsp_url ==
    \E stream_index \in StreamIndexes :
        Returns("get_rtsp_url", [stream_index |-> stream_index],
                get_rtsp_url_call(Self, stream_index))

MediaReady(self) == self.media_service # NoObject /\ self.media_profile # None

get_onvif_stream_url_call(self, uriOk) ==
    IF ~MediaReady(self) THEN Outcome(self, <<>>, EmptyString)
    ELSE Outcome(self,
                 <<Req("GetStreamUri", uriOk,
                       [ProfileToken |-> self.media_profile[1].token], None)>>,
                 IF uriOk THEN "uri" ELSE EmptyString)

get_onvif_stream_url ==
    \E uriOk \in Asked(MediaReady(Self), Bools) :
        Returns("get_onvif_stream_url", None, get_onvif_stream_url_call(Self, uriOk))

\* ------------------------------------------------------- absolute move

\* The clamp without its upper bound.
clamp_lower_only(range, v) == Max(range[1], v)

\* max(range[0], min(range[1], v))
clamp(range, v) == Max(range[1], Min(range[2], v))

\* Whether ptz_service.create_type(...) and media_profile.token can be
\* evaluated: both raise on None.
PtzReady(self) == self.ptz_service # NoObject /\ self.media_profile # None
Token(self) == self.media_profile[1].token

SpeedOf(speed) == [PanTilt |-> [x |-> speed, y |-> speed], Zoom |-> [x |-> speed]]

\* request.Position after the assignments of lines 204-218, or None when one
\* of them raises (Position is None, or the component is not a vector).
AbsolutePosition(self, position, pan, tilt, zoom) ==
    LET needPT == pan # None \/ tilt # None
        needZoom == zoom # None
    IN IF position = None
       THEN IF needPT \/ needZoom THEN None ELSE Some(position)
       ELSE LET pos == position[1]
                ptBad == needPT /\ pos.PanTilt.kind # "value"
                zmBad == needZoom /\ pos.Zoom.kind # "value"
                pt1 == IF pan # None
                       THEN [pos.PanTilt EXCEPT !.x = clamp(self.pan_range, pan[1])]
                       ELSE pos.PanTilt
                pt2 == IF tilt # None
                       THEN [pt1 EXCEPT !.y = clamp(self.tilt_range, tilt[1])]
                       ELSE pt1
                zm1 == IF zoom # None
                       THEN [pos.Zoom EXCEPT !.x = clamp(self.zoom_range, zoom[1])]
                       ELSE pos.Zoom
            IN IF ptBad \/ zmBad THEN None
               ELSE Some(Some([PanTilt |-> pt2, Zoom |-> zm1]))

\* absolute_move sending AbsoluteMove a second time when the first is rejected.
absolute_move_retrying(self, pan, tilt, zoom, speed, status, moveOk) ==
    IF ~PtzReady(self) THEN Outcome(self, <<>>, FALSE)
    ELSE LET l1 == <<Req("GetStatus", status.ok, [ProfileToken |-> Token(self)], status.Position)>>
             built == AbsolutePosition(self, status.Position, pan, tilt, zoom)
             move == Req("AbsoluteMove", moveOk,
                         [ProfileToken |-> Token(self), Position |-> built[1],
                          Speed |-> SpeedOf(speed)], None)
         IN IF ~status.ok \/ built = None THEN Outcome(self, l1, FALSE)
            ELSE IF moveOk THEN Outcome(self, Append(l1, move), TRUE)
            ELSE Outcome(self, Append(Append(l1, move), move), FALSE)

absolute_move_call(self, pan, tilt, zoom, speed, status, moveOk) ==
    IF ~PtzReady(self) THEN Outcome(self, <<>>, FALSE)
    ELSE LET l1 == <<Req("GetStatus", status.ok, [ProfileToken |-> Token(self)], status.Position)>>
             built == AbsolutePosition(self, status.Position, pan, tilt, zoom)
         IN IF ~status.ok \/ built = None THEN Outcome(self, l1, FALSE)
            ELSE Outcome(self,
                         Append(l1, Req("AbsoluteMove", moveOk,
                                        [ProfileToken |-> Token(self),
                                         Position |-> built[1],
                                         Speed |-> SpeedOf(speed)], None)),
                         moveOk)

\* Whether absolute_move gets as far as sending AbsoluteMove.
AbsoluteMoveSent(self, pan, tilt, zoom, status) ==
    /\ PtzReady(self)
    /\ status.ok
    /\ AbsolutePosition(self, status.Position, pan, tilt, zoom) # None

\* Arguments: a coordinate below every range, one inside, one above.
ArgCoords == {-MaxCoord, 1, MaxCoord}
Opt(v) == {None, Some(v)}
Speeds == {1}

absolute_move ==
    \E v \in ArgCoords, speed \in Speeds :
    \E pan \in Opt(v), tilt \in Opt(-v), zoom \in Opt(v) :
    \E status \in Asked(PtzReady(Self), StatusReplies) :
    \E moveOk \in Asked(AbsoluteMoveSent(Self, pan, tilt, zoom, status), Bools) :
        Returns("absolute_move",
                [pan |-> pan, tilt |-> tilt, zoom |-> zoom, speed |-> speed],
                absolute_move_call(Self, pan, tilt, zoom, speed, status, moveOk))

\* move_to_position(pan, tilt, speed) is absolute_move(pan=pan, tilt=tilt,
\* speed=speed): zoom stays None.
move_to_position_call(self, pan, tilt, speed, status, moveOk) ==
    absolute_move_call(self, Some(pan), Some(tilt), None, speed, status, moveOk)

move_to_position ==
    \E pan \in ArgCoords, speed \in Speeds :
    \E status \in Asked(PtzReady(Self), StatusReplies) :
    \E moveOk \in Asked(AbsoluteMoveSent(Self, Some(pan), Some(-pan), None, status), Bools) :
        Returns("move_to_position", [pan |-> pan, tilt |-> -pan, speed |-> speed],
                move_to_position_call(Self, pan, -pan, speed, status, moveOk))

\* ------------------------------------------------------- relative move

\* relative_move returning True whatever the request's fate.
relative_move_always_true(self, pan_delta, tilt_delta, zoom_delta, speed, moveOk) ==
    IF ~PtzReady(self) THEN Outcome(self, <<>>, TRUE)
    ELSE Outcome(self,
                 <<Req("RelativeMove", moveOk,
                       [ProfileToken |-> Token(self),
                        Translation |-> [PanTilt |-> [x |-> pan_delta, y |-> tilt_delta],
                                         Zoom |-> [x |-> zoom_delta]],
                        Speed |-> SpeedOf(speed)], None)>>,
                 TRUE)

relative_move_call(self, pan_delta, tilt_delta, zoom_delta, speed, moveOk) ==
    IF ~PtzReady(self) THEN Outcome(self, <<>>, FALSE)
    ELSE Outcome(self,
                 <<Req("RelativeMove", moveOk,
                       [ProfileToken |-> Token(self),
                        Translation |-> [PanTilt |-> [x |-> pan_delta, y |-> tilt_delta],
                                         Zoom |-> [x |-> zoom_delta]],
                        Speed |-> SpeedOf(speed)], None)>>,
                 moveOk)

Deltas == {0, 1}

relative_move ==
    \E pan_delta \in Deltas, tilt_delta \in Deltas, zoom_delta \in {0}, speed \in Speeds :
    \E moveOk \in Asked(PtzReady(Self), Bools) :
        Returns("relative_move",
                [pan_delta |-> pan_delta, tilt_delta |-> tilt_delta,
                 zoom_delta |-> zoom_delta, speed |-> speed],
                relative_move_call(Self, pan_delta, tilt_delta, zoom_delta, speed, moveOk))

\* ----------------------------------------------------- continuous move

\* stop: one Stop request for the profile; a failure is absorbed.
stop_call(self, l, stopOk) ==
    IF ~PtzReady(self) THEN Outcome(self, l, NoReturn)
    ELSE Outcome(self,
                 Append(l, Req("Stop", stopOk,
                               [ProfileToken |-> Token(self),
                                PanTilt |-> TRUE, Zoom |-> TRUE], None)),
                 NoReturn)

stop ==
    \E stopOk \in Asked(PtzReady(Self), Bools) :
        Returns("stop", None, stop_call(Self, <<>>, stopOk))

\* time.sleep(duration) raises ValueError for a negative duration.
SleepRaises(duration) == duration < 0

\* continuous_move: ContinuousMove, then time.sleep(duration), then stop(),
\* all under one try whose handler only prints.
continuous_move_call(self, pan_speed, tilt_speed, zoom_speed, duration, moveOk, stopOk) ==
    IF ~PtzReady(self) THEN Outcome(self, <<>>, NoReturn)
    ELSE LET l1 == <<Req("ContinuousMove", moveOk,
                         [ProfileToken |-> Token(self),
                          Velocity |-> [PanTilt |-> [x |-> pan_speed, y |-> tilt_speed],
                                        Zoom |-> [x |-> zoom_speed]]], None)>>
         IN IF ~moveOk \/ SleepRaises(duration) THEN Outcome(self, l1, NoReturn)
            ELSE stop_call(self, l1, stopOk)

\* Whether continuous_move gets as far as calling stop().
ContinuousStopSent(self, duration, moveOk) ==
    PtzReady(self) /\ moveOk /\ ~SleepRaises(duration)

Velocities == {0, 1}
Durations == {-1, 0, 1}

continuous_move ==
    \E pan_speed \in Velocities, tilt_speed \in {0}, zoom_speed \in {0}, duration \in Durations :
    \E moveOk \in Asked(PtzReady(Self), Bools) :
    \E stopOk \in Asked(ContinuousStopSent(Self, duration, moveOk), Bools) :
        Returns("continuous_move",
                [pan_speed |-> pan_speed, tilt_speed |-> tilt_speed,
                 zoom_speed |-> zoom_speed, duration |-> duration],
                continuous_move_call(Self, pan_speed, tilt_speed, zoom_speed,
                                     duration, moveOk, stopOk))

\* The four direction operations call continuous_move with one velocity set.
pan_left_call(self, speed, duration, moveOk, stopOk) ==
    continuous_move_call(self, -speed, 0, 0, duration, moveOk, stopOk)

pan_right_call(self, speed, duration, moveOk, stopOk) ==
    continuous_move_call(self, speed, 0, 0, duration, moveOk, stopOk)

tilt_up_call(self, speed, duration, moveOk, stopOk) ==
    continuous_move_call(self, 0, speed, 0, duration, moveOk, stopOk)

tilt_down_call(self, speed, duration, moveOk, stopOk) ==
    continuous_move_call(self, 0, -speed, 0, duration, moveOk, stopOk)

pan_left ==
    \E speed \in Speeds, duration \in Durations :
    \E moveOk \in Asked(PtzReady(Self), Bools) :
    \E stopOk \in Asked(ContinuousStopSent(Self, duration, moveOk), Bools) :
        Returns("pan_left", [speed |-> speed, duration |-> duration],
                pan_left_call(Self, speed, duration, moveOk, stopOk))

pan_right ==
    \E speed \in Speeds, duration \in Durations :
    \E moveOk \in Asked(PtzReady(Self), Bools) :
    \E stopOk \in Asked(ContinuousStopSent(Self, duration, moveOk), Bools) :
        Returns("pan_right", [speed |-> speed, duration |-> duration],
                pan_right_call(Self, speed, duration, moveOk, stopOk))

tilt_up ==
    \E speed \in Speeds, duration \in Durations :
    \E moveOk \in Asked(PtzReady(Self), Bools) :
    \E stopOk \in Asked(ContinuousStopSent(Self, duration, moveOk), Bools) :
        Returns("tilt_up", [speed |-> speed, duration |-> duration],
                tilt_up_call(Self, speed, duration, moveOk, stopOk))

tilt_down ==
    \E speed \in Speeds, duration \in Durations :
    \E moveOk \in Asked(PtzReady(Self), Bools) :
    \E stopOk \in Asked(ContinuousStopSent(Self, duration, moveOk), Bools) :
        Returns("tilt_down", [speed |-> speed, duration |-> duration],
                tilt_down_call(Self, speed, duration, moveOk, stopOk))

\* --------------------------------------------------------------- status

\* Whether reading pos.PanTilt.x or pos.Zoom.x raises: the attribute is there
\* (hasattr is true) and is None.  get_status reads them to print them,
\* get_current_position to return them.
ComponentReadRaises(position) ==
    /\ position # None
    /\ \/ position[1].PanTilt.kind = "none"
       \/ position[1].Zoom.kind = "none"

\* get_status returns the serialised status, {} on any failure.
get_status_call(self, status) ==
    IF ~PtzReady(self) THEN Outcome(self, <<>>, EmptyDict)
    ELSE LET l1 == <<Req("GetStatus", status.ok, [ProfileToken |-> Token(self)], status.Position)>>
         IN IF ~status.ok \/ ComponentReadRaises(status.Position)
            THEN Outcome(self, l1, EmptyDict)
            ELSE Outcome(self, l1, Some([Position |-> status.Position]))

get_status ==
    \E status \in Asked(PtzReady(Self), StatusReplies) :
        Returns("get_status", None, get_status_call(Self, status))

\* get_current_position leaving zoom at its initial 0.0.
get_current_position_without_zoom(self, status) ==
    IF ~PtzReady(self) THEN Outcome(self, <<>>, <<0, 0, 0>>)
    ELSE LET l1 == <<Req("GetStatus", status.ok, [ProfileToken |-> Token(self)], status.Position)>>
         IN IF ~status.ok \/ ComponentReadRaises(status.Position)
            THEN Outcome(self, l1, <<0, 0, 0>>)
            ELSE IF status.Position = None THEN Outcome(self, l1, <<0, 0, 0>>)
            ELSE LET pos == status.Position[1]
                     hasPT == pos.PanTilt.kind = "value"
                 IN Outcome(self, l1,
                            <<IF hasPT THEN pos.PanTilt.x ELSE 0,
                              IF hasPT THEN pos.PanTilt.y ELSE 0,
                              0>>)

\* get_current_position: pan, tilt and zoom start at 0.0 and are taken from
\* the components that are there; reading a component that is None raises,
\* and every failure returns (0.0, 0.0, 0.0).
get_current_position_call(self, status) ==
    IF ~PtzReady(self) THEN Outcome(self, <<>>, <<0, 0, 0>>)
    ELSE LET l1 == <<Req("GetStatus", status.ok, [ProfileToken |-> Token(self)], status.Position)>>
         IN IF ~status.ok \/ ComponentReadRaises(status.Position)
            THEN Outcome(self, l1, <<0, 0, 0>>)
            ELSE IF status.Position = None THEN Outcome(self, l1, <<0, 0, 0>>)
            ELSE LET pos == status.Position[1]
                     hasPT == pos.PanTilt.kind = "value"
                     hasZoom == pos.Zoom.kind = "value"
                 IN Outcome(self, l1,
                            <<IF hasPT THEN pos.PanTilt.x ELSE 0,
                              IF hasPT THEN pos.PanTilt.y ELSE 0,
                              IF hasZoom THEN pos.Zoom.x ELSE 0>>)

get_current_position ==
    \E status \in Asked(PtzReady(Self), StatusReplies) :
        Returns("get_current_position", None, get_current_position_call(Self, status))

\* -------------------------------------------------------------- presets

PresetTokens == {"1", "2"}
Presets == {[token |-> t, Name |-> n] : t \in PresetTokens, n \in {"A"}}

\* GetPresets: the request fails, or a list of presets.
PresetReplies == {[ok |-> FALSE, list |-> <<>>]}
                 \cup {[ok |-> TRUE, list |-> l] : l \in SeqsUpTo(Presets, MaxList)}

\* The dict {token: name} built by the loop: a later preset of the same token
\* replaces an earlier one.
PresetDict(list) ==
    [t \in {list[i].token : i \in DOMAIN list} |->
        LET last == CHOOSE i \in DOMAIN list :
                      /\ list[i].token = t
                      /\ \A j \in DOMAIN list : list[j].token = t => j <= i
        IN list[last].Name]

get_presets_call(self, presets) ==
    IF ~PtzReady(self) THEN Outcome(self, <<>>, EmptyDict)
    ELSE Outcome(self,
                 <<Req("GetPresets", presets.ok, [ProfileToken |-> Token(self)], presets.list)>>,
                 IF presets.ok THEN PresetDict(presets.list) ELSE EmptyDict)

get_presets ==
    \E presets \in Asked(PtzReady(Self), PresetReplies) :
        Returns("get_presets", None, get_presets_call(Self, presets))

goto_preset_call(self, preset_token, speed, ok) ==
    IF ~PtzReady(self) THEN Outcome(self, <<>>, NoReturn)
    ELSE Outcome(self,
                 <<Req("GotoPreset", ok,
                       [ProfileToken |-> Token(self), PresetToken |-> preset_token,
                        Speed |-> SpeedOf(speed)], None)>>,
                 NoReturn)

goto_preset ==
    \E preset_token \in PresetTokens, speed \in Speeds :
    \E ok \in Asked(PtzReady(Self), Bools) :
        Returns("goto_preset", [preset_token |-> preset_token, speed |-> speed],
                goto_preset_call(Self, preset_token, speed, ok))

\* SetPreset: the request fails, or the device answers with a PresetToken.
SetPresetReplies == {[ok |-> FALSE, PresetToken |-> EmptyString]}
                    \cup {[ok |-> TRUE, PresetToken |-> t] : t \in PresetTokens}

\* set_preset: PresetToken is set on the request only when the argument is
\* truthy (neither None nor the empty string).
set_preset_call(self, preset_name, preset_token, reply) ==
    IF ~PtzReady(self) THEN Outcome(self, <<>>, EmptyString)
    ELSE Outcome(self,
                 <<Req("SetPreset", reply.ok,
                       [ProfileToken |-> Token(self), PresetName |-> preset_name,
                        PresetToken |-> IF preset_token = None
                                           \/ preset_token = Some(EmptyString)
                                        THEN None ELSE preset_token], reply.PresetToken)>>,
                 IF reply.ok THEN reply.PresetToken ELSE EmptyString)

set_preset ==
    \E preset_name \in {"A"}, preset_token \in {None, Some(EmptyString), Some("1")} :
    \E reply \in Asked(PtzReady(Self), SetPresetReplies) :
        Returns("set_preset", [preset_name |-> preset_name, preset_token |-> preset_token],
                set_preset_call(Self, preset_name, preset_token, reply))

remove_preset_call(self, preset_token, ok) ==
    IF ~PtzReady(self) THEN Outcome(self, <<>>, NoReturn)
    ELSE Outcome(self,
                 <<Req("RemovePreset", ok,
                       [ProfileToken |-> Token(self), PresetToken |-> preset_token], None)>>,
                 NoReturn)

remove_preset ==
    \E preset_token \in PresetTokens :
    \E ok \in Asked(PtzReady(Self), Bools) :
        Returns("remove_preset", [preset_token |-> preset_token],
                remove_preset_call(Self, preset_token, ok))

\* ----------------------------------------------------------------- home

goto_home_call(self, speed, ok) ==
    IF ~PtzReady(self) THEN Outcome(self, <<>>, NoReturn)
    ELSE Outcome(self,
                 <<Req("GotoHomePosition", ok,
                       [ProfileToken |-> Token(self), Speed |-> SpeedOf(speed)], None)>>,
                 NoReturn)

goto_home ==
    \E speed \in Speeds :
    \E ok \in Asked(PtzReady(Self), Bools) :
        Returns("goto_home", [speed |-> speed], goto_home_call(Self, speed, ok))

set_home_call(self, ok) ==
    IF ~PtzReady(self) THEN Outcome(self, <<>>, NoReturn)
    ELSE Outcome(self,
                 <<Req("SetHomePosition", ok, [ProfileToken |-> Token(self)], None)>>,
                 NoReturn)

set_home ==
    \E ok \in Asked(PtzReady(Self), Bools) :
        Returns("set_home", None, set_home_call(Self, ok))

\* --------------------------------------------------- device information

get_device_info_call(self, ok) ==
    IF self.camera = NoObject THEN Outcome(self, <<>>, EmptyDict)
    ELSE Outcome(self, <<Req("GetDeviceInformation", ok, None, None)>>,
                 IF ok THEN Some("DeviceInformation") ELSE EmptyDict)

get_device_info ==
    \E ok \in Asked(camera # NoObject, Bools) :
        Returns("get_device_info", None, get_device_info_call(Self, ok))

get_capabilities_call(self, ok) ==
    IF self.camera = NoObject THEN Outcome(self, <<>>, EmptyDict)
    ELSE Outcome(self, <<Req("GetCapabilities", ok, None, None)>>,
                 IF ok THEN Some("Capabilities") ELSE EmptyDict)

get_capabilities ==
    \E ok \in Asked(camera # NoObject, Bools) :
        Returns("get_capabilities", None, get_capabilities_call(Self, ok))

get_ptz_nodes_call(self, ok) ==
    IF self.ptz_service = NoObject THEN Outcome(self, <<>>, EmptyList)
    ELSE Outcome(self, <<Req("GetNodes", ok, None, None)>>,
                 IF ok THEN Some("PTZNode") ELSE EmptyList)

get_ptz_nodes ==
    \E ok \in Asked(ptz_service # NoObject, Bools) :
        Returns("get_ptz_nodes", None, get_ptz_nodes_call(Self, ok))

\* ---------------------------------------------------------------- spec

Init ==
    /\ camera = NoObject
    /\ media_service = NoObject
    /\ ptz_service = NoObject
    /\ media_profile = None
    /\ ptz_config_options = NoObject
    /\ pan_range = DefaultPanRange
    /\ tilt_range = DefaultTiltRange
    /\ zoom_range = DefaultZoomRange
    /\ lastOp = "__init__"
    /\ args = None
    /\ log = <<>>
    /\ ret = NoReturn

Next ==
    \/ connect
    \/ get_rtsp_url
    \/ get_onvif_stream_url
    \/ absolute_move
    \/ move_to_position
    \/ relative_move
    \/ continuous_move
    \/ stop
    \/ pan_left
    \/ pan_right
    \/ tilt_up
    \/ tilt_down
    \/ get_status
    \/ get_current_position
    \/ get_presets
    \/ goto_preset
    \/ set_preset
    \/ remove_preset
    \/ goto_home
    \/ set_home
    \/ get_device_info
    \/ get_capabilities
    \/ get_ptz_nodes

Spec == Init /\ [][Next]_vars

\* --------------------------------------------------------------- claims

\* The positions in log l of the requests of kind k.
Sent(l, k) == {i \in DOMAIN l : l[i].req = k}
Failed(l) == {i \in DOMAIN l : ~l[i].ok}

MoveOps == {"absolute_move", "move_to_position"}
ContinuousOps == {"continuous_move", "pan_left", "pan_right", "tilt_up", "tilt_down"}

\* The last call sent an AbsoluteMove request.
AbsoluteMoveWasSent == lastOp \in MoveOps /\ Sent(log, "AbsoluteMove") # {}

\* The pan, tilt and zoom arguments of the last absolute move.
PanArg == IF lastOp = "absolute_move" THEN args.pan ELSE Some(args.pan)
TiltArg == IF lastOp = "absolute_move" THEN args.tilt ELSE Some(args.tilt)
ZoomArg == IF lastOp = "absolute_move" THEN args.zoom ELSE None

\* The position the AbsoluteMove request carried.
SentPosition == log[2].arg.Position[1]

Inside(range, v) == range[1] <= v /\ v <= range[2]

\* The value sent for an argument a under bounds range, as the claim has it.
ClampedInto(range, a, sent) ==
    /\ Inside(range, sent)
    /\ Inside(range, a) => sent = a
    /\ a < range[1] => sent = range[1]
    /\ a > range[2] => sent = range[2]

\* The same where min <= max; where the stored min exceeds the stored max, no
\* value lies within the bounds and the value sent is min.
ClampedOrMin(range, a, sent) ==
    IF range[1] <= range[2] THEN ClampedInto(range, a, sent) ELSE sent = range[1]

\* C1 as stated: every AbsoluteMove request carries, for each axis whose
\* argument is not None, a value within the stored bounds of that axis: the
\* argument itself if inside [min, max], min if below, max if above.
C1_AsStated ==
    AbsoluteMoveWasSent =>
        /\ PanArg # None => ClampedInto(pan_range, PanArg[1], SentPosition.PanTilt.x)
        /\ TiltArg # None => ClampedInto(tilt_range, TiltArg[1], SentPosition.PanTilt.y)
        /\ ZoomArg # None => ClampedInto(zoom_range, ZoomArg[1], SentPosition.Zoom.x)

\* C1 amended: the same for every axis whose stored bounds have min <= max;
\* for an axis whose stored min exceeds its stored max the value sent is min,
\* whatever the argument.
C1_Clamped ==
    AbsoluteMoveWasSent =>
        /\ PanArg # None => ClampedOrMin(pan_range, PanArg[1], SentPosition.PanTilt.x)
        /\ TiltArg # None => ClampedOrMin(tilt_range, TiltArg[1], SentPosition.PanTilt.y)
        /\ ZoomArg # None => ClampedOrMin(zoom_range, ZoomArg[1], SentPosition.Zoom.x)

\* An absolute move with all three arguments, under device-reported bounds,
\* with pan above its maximum, tilt below its minimum and zoom above its
\* maximum, each sent as the bound it crossed.
C1_Witness ==
    /\ lastOp = "absolute_move"
    /\ AbsoluteMoveWasSent
    /\ PanArg # None /\ TiltArg # None /\ ZoomArg # None
    /\ pan_range = <<-MaxRange, MaxRange>> /\ tilt_range = <<0, MaxRange>>
    /\ zoom_range = <<0, MaxRange>>
    /\ PanArg[1] > MaxRange /\ SentPosition.PanTilt.x = MaxRange
    /\ TiltArg[1] < 0 /\ SentPosition.PanTilt.y = 0
    /\ ZoomArg[1] > MaxRange /\ SentPosition.Zoom.x = MaxRange

\* What GetConfigurationOptions reported in log l: the Spaces of a successful
\* reply, None when the request failed or was never sent.
ReportedSpaces(l) ==
    LET ok == {i \in DOMAIN l : l[i].req = "GetConfigurationOptions" /\ l[i].ok}
    IN IF ok = {} THEN None ELSE l[CHOOSE i \in ok : TRUE].reply

ReportedPanTilt(l) ==
    LET spaces == ReportedSpaces(l)
    IN IF spaces = None THEN <<>> ELSE spaces[1].AbsolutePanTiltPositionSpace

ReportedZoom(l) ==
    LET spaces == ReportedSpaces(l)
    IN IF spaces = None THEN <<>> ELSE spaces[1].AbsoluteZoomPositionSpace

\* C2 as stated: after connect() the bounds are those of the first entry of
\* each space the device reported, and the defaults for every space it did
\* not report and when the options request failed.
C2_AsStated ==
    lastOp = "connect" =>
        /\ ReportedPanTilt(log) # <<>> =>
              /\ pan_range = ReportedPanTilt(log)[1].XRange
              /\ tilt_range = ReportedPanTilt(log)[1].YRange
        /\ ReportedZoom(log) # <<>> => zoom_range = ReportedZoom(log)[1].XRange
        /\ ReportedPanTilt(log) = <<>> =>
              pan_range = DefaultPanRange /\ tilt_range = DefaultTiltRange
        /\ ReportedZoom(log) = <<>> => zoom_range = DefaultZoomRange

\* One call of connect(): the bounds of a reported space are those of its
\* first entry, the others are what they were when connect() was called.
ConnectSetsBounds ==
    lastOp' = "connect" =>
        LET pt == ReportedPanTilt(log')
            zm == ReportedZoom(log')
        IN /\ pan_range' = IF pt # <<>> THEN pt[1].XRange ELSE pan_range
           /\ tilt_range' = IF pt # <<>> THEN pt[1].YRange ELSE tilt_range
           /\ zoom_range' = IF zm # <<>> THEN zm[1].XRange ELSE zoom_range

\* C2 amended: after connect() the bounds of each space the device reported
\* are those of its first entry; for a space that is not reported, and when
\* the options request fails or is not sent, the bounds keep the values they had
\* when connect() was called, which are the defaults as long as no options
\* reply has been stored.
C2_DeviceBounds ==
    /\ [][ConnectSetsBounds]_vars
    /\ [](ptz_config_options = NoObject =>
            /\ pan_range = DefaultPanRange
            /\ tilt_range = DefaultTiltRange
            /\ zoom_range = DefaultZoomRange)

\* A connect() whose options report a pan/tilt space of two entries and no
\* zoom space: pan and tilt are the first entry's, zoom is what an earlier
\* connect() stored.
C2_Witness ==
    /\ lastOp = "connect" /\ ret = TRUE
    /\ Len(ReportedPanTilt(log)) = MaxList
    /\ ReportedPanTilt(log)[1] # ReportedPanTilt(log)[MaxList]
    /\ pan_range = ReportedPanTilt(log)[1].XRange
    /\ tilt_range = ReportedPanTilt(log)[1].YRange
    /\ ReportedSpaces(log) # None /\ ReportedZoom(log) = <<>>
    /\ zoom_range = <<0, MaxRange>>

\* C3: within one call no kind of device request is sent twice, so a request
\* that failed is not sent again.
C3_NoRetry ==
    \A i \in DOMAIN log : \A j \in DOMAIN log : i # j => log[i].req # log[j].req

\* An absolute move whose AbsoluteMove request the device rejected: the call
\* ended after the one attempt.
C3_Witness ==
    /\ lastOp = "absolute_move"
    /\ Len(log) = 2
    /\ log[1].req = "GetStatus" /\ log[1].ok
    /\ log[2].req = "AbsoluteMove" /\ ~log[2].ok
    /\ ret = FALSE

\* The GetStatus reply of the last call carries a position whose PanTilt and
\* Zoom are both vectors.
FullPositionReported ==
    /\ log # <<>> /\ log[1].req = "GetStatus" /\ log[1].ok
    /\ log[1].reply # None
    /\ log[1].reply[1].PanTilt.kind = "value"
    /\ log[1].reply[1].Zoom.kind = "value"

\* get_current_position and get_status return what this call's GetStatus
\* request reported.
StatusIsFresh ==
    /\ lastOp = "get_current_position" /\ FullPositionReported =>
          ret = <<log[1].reply[1].PanTilt.x, log[1].reply[1].PanTilt.y,
                  log[1].reply[1].Zoom.x>>
    /\ lastOp = "get_status" /\ FullPositionReported =>
          ret = Some([Position |-> log[1].reply])

\* A call of any operation but connect leaves every stored field as it was.
OnlyConnectAssigns == lastOp' # "connect" => UNCHANGED fields

BooleanOps == {"connect", "absolute_move", "move_to_position", "relative_move"}
DictOps == {"get_status", "get_presets", "get_device_info", "get_capabilities"}
StringOps == {"get_onvif_stream_url", "set_preset"}
VoidOps == ContinuousOps \cup {"stop", "goto_preset", "remove_preset", "goto_home", "set_home"}
DeviceOps == (BooleanOps \ {"connect"}) \cup DictOps \cup StringOps \cup VoidOps
             \cup {"get_current_position", "get_ptz_nodes"}

\* The value an operation returns on failure.
FailureValue(op) ==
    CASE op \in BooleanOps -> FALSE
      [] op \in DictOps -> EmptyDict
      [] op \in StringOps -> EmptyString
      [] op = "get_current_position" -> <<0, 0, 0>>
      [] op = "get_ptz_nodes" -> EmptyList
      [] OTHER -> NoReturn

\* Nothing is set yet: no connect() has got as far as the camera connection.
Unconnected ==
    /\ camera = NoObject /\ media_service = NoObject
    /\ ptz_service = NoObject /\ media_profile = None

Deciding(l) == DOMAIN l \ Sent(l, "GetConfigurationOptions")

ConnectSteps == <<"ONVIFCamera", "GetDeviceInformation", "create_media_service",
                  "GetProfiles", "create_ptz_service">>

\* The first n steps of connect were taken in order and each was obtained
\* (for GetProfiles: a non-empty list).
Obtained(l, n) ==
    /\ Len(l) >= n
    /\ \A i \in 1..n :
          /\ l[i].req = ConnectSteps[i]
          /\ l[i].ok
          /\ l[i].req = "GetProfiles" => l[i].reply # <<>>

\* C6: connect() returns True exactly when the camera connection, the device
\* information, the media service, a non-empty profile list and the PTZ
\* service were obtained in this order; camera, media_service, ptz_service and
\* media_profile (the first profile of the list) are then set; whether the
\* options request then succeeds, fails or is not sent does not matter.
C6_ConnectResult ==
    lastOp = "connect" =>
        /\ \A i \in DOMAIN log : i <= Len(ConnectSteps) => log[i].req = ConnectSteps[i]
        /\ ret = (Obtained(log, Len(ConnectSteps)))
        /\ ret = TRUE =>
              /\ camera # NoObject /\ media_service # NoObject
              /\ ptz_service # NoObject
              /\ media_profile = Some(log[4].reply[1])
        /\ \A i \in DOMAIN log : i > Len(ConnectSteps) =>
              log[i].req = "GetConfigurationOptions"

\* A connect() that returned True although its options request failed, its
\* profile the first of a list of differing profiles.
C6_Witness ==
    /\ lastOp = "connect" /\ ret = TRUE
    /\ Len(log) = Len(ConnectSteps) + 1 /\ ~log[Len(log)].ok
    /\ Len(log[4].reply) = MaxList
    /\ log[4].reply[1] # log[4].reply[MaxList]
    /\ media_profile = Some(log[4].reply[1])

\* C7 as stated: an accepted ContinuousMove is followed in the same call by
\* exactly one Stop for the same profile with PanTilt and Zoom true; a rejected
\* one by none; and the call returns normally whatever Stop answers.
C7_StopFollows ==
    lastOp \in ContinuousOps =>
        /\ \A i \in Sent(log, "ContinuousMove") :
              IF log[i].ok
              THEN /\ Cardinality(Sent(log, "Stop")) = 1
                   /\ \A j \in Sent(log, "Stop") :
                         /\ i < j
                         /\ log[j].arg = [ProfileToken |-> log[i].arg.ProfileToken,
                                          PanTilt |-> TRUE, Zoom |-> TRUE]
              ELSE Sent(log, "Stop") = {}
        /\ ret = NoReturn
====
